---- MODULE Spec2Model ----
(***************************************************************************)
(* ECFP reasoning trace engine (src/src/cpp/ecfp_trace.cpp) and its        *)
(* callers.  Strings are sequences of bytes; a byte is written as a        *)
(* one-character string, except the line feed ("LF") and the bytes of the  *)
(* two UTF-8 separators ("xC3" "x97" and "xE2" "x86" "x92").               *)
(***************************************************************************)
EXTENDS Integers, Sequences, FiniteSets, TLC

\* ------------------------------------------------------------------ bounds
MaxRadius == 2
MaxOver == 1
NThreads == 2
SmallFpBits == 16
MaxElements == 2
MaxTokenLen == 4

\* ------------------------------------------------------- program constants
kECFPReasoningFingerprintSize == 2048
kOpRadius == 2

kCountSeparator == <<"xC3", "x97">>

kChainArrow == <<" ", "xE2", "x86", "x92", " ">>

\* --------------------------------------------------------- bytes, strings
Digits == <<"0", "1", "2", "3", "4", "5", "6", "7", "8", "9">>

IsDigit(b) == \E i \in 1..10 : Digits[i] = b

DigitVal(b) == (CHOOSE i \in 1..10 : Digits[i] = b) - 1

\* The value of a byte as an unsigned char, which is what
\* std::string::operator< compares.
ByteCode(b) ==
    CASE b = "LF" -> 10
      [] b = " " -> 32
      [] b = "#" -> 35
      [] b = "(" -> 40
      [] b = ")" -> 41
      [] b = "+" -> 43
      [] b = "," -> 44
      [] b = "-" -> 45
      [] IsDigit(b) -> 48 + DigitVal(b)
      [] b = ":" -> 58
      [] b = "=" -> 61
      [] b = "B" -> 66
      [] b = "C" -> 67
      [] b = "N" -> 78
      [] b = "O" -> 79
      [] b = "[" -> 91
      [] b = "]" -> 93
      [] b = "a" -> 97
      [] b = "c" -> 99
      [] b = "e" -> 101
      [] b = "h" -> 104
      [] b = "i" -> 105
      [] b = "n" -> 110
      [] b = "p" -> 112
      [] b = "r" -> 114
      [] b = "s" -> 115
      [] b = "t" -> 116
      [] b = "x" -> 120
      [] b = "x86" -> 134
      [] b = "x92" -> 146
      [] b = "x97" -> 151
      [] b = "xC3" -> 195
      [] b = "xE2" -> 226

\* std::string operator<: lexicographic on unsigned bytes, a proper prefix
\* is smaller.
RECURSIVE StrLess(_, _)
StrLess(s, t) ==
    IF t = <<>> THEN FALSE
    ELSE IF s = <<>> THEN TRUE
    ELSE IF ByteCode(Head(s)) # ByteCode(Head(t))
         THEN ByteCode(Head(s)) < ByteCode(Head(t))
    ELSE StrLess(Tail(s), Tail(t))

\* operator<< of an unsigned integer: its decimal digits.
RECURSIVE DecStr(_)
DecStr(n) ==
    IF n < 10 THEN <<Digits[n + 1]>>
    ELSE DecStr(n \div 10) \o <<Digits[(n % 10) + 1]>>

\* std::string::find(':'): the 0-based position of the first ':', or -1
\* (npos).
RECURSIVE FindFrom(_, _, _)
FindFrom(s, b, i) ==
    IF i > Len(s) THEN -1
    ELSE IF s[i] = b THEN i - 1
    ELSE FindFrom(s, b, i + 1)

FindColon(s) == FindFrom(s, ":", 1)

\* std::string::substr(pos, n), pos 0-based.
Substr(s, pos, n) == SubSeq(s, pos + 1, pos + n)

SubstrFrom(s, pos) == SubSeq(s, pos + 1, Len(s))

\* The ascending sequence of a finite set of naturals: the iteration order
\* of std::set<unsigned> and of the keys of std::map<unsigned, T>.
RECURSIVE AscendingSeq(_)
AscendingSeq(S) ==
    IF S = {} THEN <<>>
    ELSE LET m == CHOOSE x \in S : \A y \in S : x <= y
         IN  <<m>> \o AscendingSeq(S \ {m})

\* ------------------------------------------------------ toolkit: molecules
\* A molecule: atoms (atomic number, symbol, atom-map number) and bonds
\* (begin, end, order), both indexed from 0 as in the toolkit; atom i is
\* atoms[i + 1].  ok = FALSE is the null pointer.
Atom(num, sym, map) == [num |-> num, sym |-> sym, map |-> map]

Bond(b, e, order) == [b |-> b, e |-> e, order |-> order]

NullMol == [ok |-> FALSE, atoms |-> <<>>, bonds |-> <<>>]

Mol(atoms, bonds) == [ok |-> TRUE, atoms |-> atoms, bonds |-> bonds]

\* RDKit::SmilesToMol on the SMILES strings of the model: the empty string
\* parses to a molecule with no atoms, a string that is no SMILES yields
\* the null pointer.
SmilesLibrary ==
    {"", "not_a_molecule", "C", "CC", "CB", "CCO", "C=O", "[CH3:7]O", "CCCO"}

SmilesToMol(smiles) ==
    CASE smiles = "" -> Mol(<<>>, <<>>)
      [] smiles = "C" -> Mol(<<Atom(6, <<"C">>, 0)>>, <<>>)
      [] smiles = "CC" ->
            Mol(<<Atom(6, <<"C">>, 0), Atom(6, <<"C">>, 0)>>,
                <<Bond(0, 1, "-")>>)
      [] smiles = "CB" ->
            Mol(<<Atom(6, <<"C">>, 0), Atom(5, <<"B">>, 0)>>,
                <<Bond(0, 1, "-")>>)
      [] smiles = "CCO" ->
            Mol(<<Atom(6, <<"C">>, 0), Atom(6, <<"C">>, 0),
                  Atom(8, <<"O">>, 0)>>,
                <<Bond(0, 1, "-"), Bond(1, 2, "-")>>)
      [] smiles = "C=O" ->
            Mol(<<Atom(6, <<"C">>, 0), Atom(8, <<"O">>, 0)>>,
                <<Bond(0, 1, "=")>>)
      [] smiles = "CCCO" ->
            Mol(<<Atom(6, <<"C">>, 0), Atom(6, <<"C">>, 0),
                  Atom(6, <<"C">>, 0), Atom(8, <<"O">>, 0)>>,
                <<Bond(0, 1, "-"), Bond(1, 2, "-"), Bond(2, 3, "-")>>)
      [] smiles = "[CH3:7]O" ->
            Mol(<<Atom(6, <<"C">>, 7), Atom(8, <<"O">>, 0)>>,
                <<Bond(0, 1, "-")>>)
      [] OTHER -> NullMol

NumAtoms(mol) == Len(mol.atoms)

AtomIdx(mol) == 0..(NumAtoms(mol) - 1)

BondIdx(mol) == 0..(Len(mol.bonds) - 1)

getAtomWithIdx(mol, idx) == mol.atoms[idx + 1]

getBondWithIdx(mol, bidx) == mol.bonds[bidx + 1]

\* Atom::setAtomMapNum on atom idx of the molecule.
setAtomMapNum(mol, idx, num) ==
    [mol EXCEPT !.atoms[idx + 1].map = num]

\* The vector of atom-map numbers, in atom order.
MapNums(mol) == [i \in 1..NumAtoms(mol) |-> mol.atoms[i].map]

\* ------------------------------------------- toolkit: atom environments
Neighbours(mol, S) ==
    S \cup {a \in AtomIdx(mol) :
               \E bi \in BondIdx(mol) :
                  LET bd == getBondWithIdx(mol, bi)
                  IN  \/ bd.b = a /\ bd.e \in S
                      \/ bd.e = a /\ bd.b \in S}

\* The atoms within `layer` bonds of `center`.
RECURSIVE Reach(_, _, _)
Reach(mol, center, layer) ==
    IF layer = 0 THEN {center}
    ELSE Neighbours(mol, Reach(mol, center, layer - 1))

\* The bonds within `layer` bonds of `center`.
BondsWithin(mol, center, layer) ==
    IF layer = 0 THEN {}
    ELSE {bi \in BondIdx(mol) :
             LET bd == getBondWithIdx(mol, bi)
                 near == Reach(mol, center, layer - 1)
             IN  bd.b \in near \/ bd.e \in near}

\* RDKit::findAtomEnvironmentOfRadiusN: the bond indices of the
\* environment, empty when no path of the full length leaves the center.
findAtomEnvironmentOfRadiusN(mol, layer, center) ==
    IF layer = 0 THEN {}
    ELSE IF BondsWithin(mol, center, layer) =
            BondsWithin(mol, center, layer - 1) THEN {}
    ELSE BondsWithin(mol, center, layer)

\* The (center, layer) occurrences the Morgan generator reports for the
\* requested radius: one per atom and layer whose environment is new (an
\* environment spanning the same bonds as an earlier one is dropped).  A
\* generator that honours the radius reports up to layer `radius`; `over`
\* is how many layers beyond it the generator reports.
MorganOccurrences(mol, radius, over) ==
    {pr \in AtomIdx(mol) \X (0..(radius + over)) :
        LET c == pr[1]
            l == pr[2]
            env == findAtomEnvironmentOfRadiusN(mol, l, c)
        IN  \/ l = 0
            \/ /\ env # {}
               /\ ~ \E c2 \in AtomIdx(mol), l2 \in 1..l :
                      /\ l2 < l \/ c2 < c
                      /\ findAtomEnvironmentOfRadiusN(mol, l2, c2) = env}

PairLess(p, q) == p[1] < q[1] \/ (p[1] = q[1] /\ p[2] < q[2])

\* Ascending (center, layer): the iteration order of
\* std::set<std::pair<unsigned, unsigned>>.
RECURSIVE AscendingPairs(_)
AscendingPairs(S) ==
    IF S = {} THEN <<>>
    ELSE LET m == CHOOSE x \in S : \A y \in S \ {x} : PairLess(x, y)
         IN  <<m>> \o AscendingPairs(S \ {m})

RECURSIVE Reverse(_)
Reverse(s) == IF s = <<>> THEN <<>> ELSE Reverse(Tail(s)) \o <<Head(s)>>

\* The bit-info map flattened to the order in which the nested loops of
\* the enumerator visit its occurrences; the order is the generator's
\* (hash order), ascending or descending here.
BitInfoOccurrences(mol, radius, over, descending) ==
    LET asc == AscendingPairs(MorganOccurrences(mol, radius, over))
    IN  IF descending THEN Reverse(asc) ELSE asc

\* ------------------------------------------------------- toolkit: SMARTS
\* One atom of a SMARTS: [#num] or, with a non-zero atom-map number,
\* [#num:map].
AtomSmarts(atom) ==
    <<"[", "#">> \o DecStr(atom.num)
        \o (IF atom.map # 0 THEN <<":">> \o DecStr(atom.map) ELSE <<>>)
        \o <<"]">>

\* The bond, if any, of `bonds` between atoms a and b.
BondsBetween(mol, bonds, a, b) ==
    {bi \in bonds :
        LET bd == getBondWithIdx(mol, bi)
        IN  (bd.b = a /\ bd.e = b) \/ (bd.b = b /\ bd.e = a)}

\* The fragment written depth first from atom `a` (reached from `parent`,
\* -1 at the start): the atom, then each neighbour in ascending index
\* order, every one but the last in parentheses.  Fragments are trees (the
\* molecules of SmilesLibrary have no ring).
RECURSIVE WriteAtom(_, _, _, _, _)
RECURSIVE WriteKids(_, _, _, _, _)
WriteAtom(mol, atoms, bonds, a, parent) ==
    LET kids == {n \in atoms \ {parent, a} :
                    BondsBetween(mol, bonds, a, n) # {}}
    IN  AtomSmarts(getAtomWithIdx(mol, a))
            \o WriteKids(mol, atoms, bonds, a, AscendingSeq(kids))

WriteKids(mol, atoms, bonds, a, kids) ==
    IF kids = <<>> THEN <<>>
    ELSE LET n == Head(kids)
             bi == CHOOSE x \in BondsBetween(mol, bonds, a, n) : TRUE
             branch == <<getBondWithIdx(mol, bi).order>>
                          \o WriteAtom(mol, atoms, bonds, n, a)
         IN  IF Len(kids) = 1 THEN branch
             ELSE <<"(">> \o branch \o <<")">>
                     \o WriteKids(mol, atoms, bonds, a, Tail(kids))

\* RDKit::MolFragmentToSmarts(mol, atomList, bondPtr, isomeric): atoms are
\* ranked by index (a SMARTS is not canonicalised), so the string starts at
\* the lowest atom of the fragment.  bondPtr == nullptr (bonds = {}) means
\* every bond between the listed atoms.  The molecules of SmilesLibrary
\* carry no stereo or isotope label, so `isomeric` changes nothing here.
MolFragmentToSmarts(mol, atomList, bonds, isomeric) ==
    LET atoms == {atomList[i] : i \in 1..Len(atomList)}
        used == IF bonds # {} THEN bonds
                ELSE {bi \in BondIdx(mol) :
                         /\ getBondWithIdx(mol, bi).b \in atoms
                         /\ getBondWithIdx(mol, bi).e \in atoms}
    IN  IF atomList = <<>> THEN <<>>
        ELSE WriteAtom(mol, atoms, used, atomList[1], -1)

\* Decimal digits starting at position i of s: <<value, next position>>,
\* value -1 when there is no digit.
RECURSIVE ReadDigits(_, _, _)
ReadDigits(s, i, acc) ==
    IF i <= Len(s) /\ IsDigit(s[i])
    THEN ReadDigits(s, i + 1, (IF acc < 0 THEN 0 ELSE acc * 10) + DigitVal(s[i]))
    ELSE <<acc, i>>

\* A bracket atom starting at s[i] = "[": <<atomic number, next position>>,
\* atomic number -1 when it is malformed.
ReadBracketAtom(s, i) ==
    IF ~ (i + 1 <= Len(s) /\ s[i + 1] = "#") THEN <<-1, i>>
    ELSE LET num == ReadDigits(s, i + 2, -1)
             j == num[2]
             mp == IF j <= Len(s) /\ s[j] = ":"
                   THEN ReadDigits(s, j + 1, -1) ELSE <<0, j>>
             k == mp[2]
         IN  IF num[1] >= 0 /\ mp[1] >= 0 /\ k <= Len(s) /\ s[k] = "]"
             THEN <<num[1], k + 1>>
             ELSE <<-1, i>>

IsBondByte(b) == b \in {"-", "=", "#", ":"}

OrganicNum(b) ==
    CASE b = "B" -> 5 [] b = "C" -> 6 [] b = "N" -> 7 [] b = "O" -> 8
      [] OTHER -> -1

\* RDKit::SmartsToMol as far as compute_metrics reads its result: the
\* atomic numbers of the atoms, the bond orders and the ring closures of
\* the pattern, or ok = FALSE on a syntax error.  `prev` is what was read
\* last ("start", "atom", "bond", "open"), `depth` the open parentheses.
RECURSIVE ScanSmarts(_, _, _, _, _)
ScanSmarts(s, i, prev, depth, acc) ==
    IF i > Len(s)
    THEN [acc EXCEPT !.ok = (prev = "atom" /\ depth = 0) \/ s = <<>>]
    ELSE LET b == s[i]
             bonded == IF prev = "start" THEN acc.bonds
                       ELSE IF prev = "bond" THEN acc.bonds
                       ELSE Append(acc.bonds, "-")
         IN  IF b = "["
             THEN LET at == ReadBracketAtom(s, i)
                  IN  IF at[1] < 0 THEN [acc EXCEPT !.ok = FALSE]
                      ELSE ScanSmarts(s, at[2], "atom", depth,
                               [acc EXCEPT !.atoms = Append(@, at[1]),
                                           !.bonds = bonded])
             ELSE IF OrganicNum(b) >= 0
             THEN ScanSmarts(s, i + 1, "atom", depth,
                      [acc EXCEPT !.atoms = Append(@, OrganicNum(b)),
                                  !.bonds = bonded])
             ELSE IF IsBondByte(b)
             THEN IF prev \in {"atom", "open"}
                  THEN ScanSmarts(s, i + 1, "bond", depth,
                           [acc EXCEPT !.bonds = Append(@, b)])
                  ELSE [acc EXCEPT !.ok = FALSE]
             ELSE IF b = "("
             THEN IF prev = "atom"
                  THEN ScanSmarts(s, i + 1, "open", depth + 1, acc)
                  ELSE [acc EXCEPT !.ok = FALSE]
             ELSE IF b = ")"
             THEN IF prev = "atom" /\ depth > 0
                  THEN ScanSmarts(s, i + 1, "atom", depth - 1, acc)
                  ELSE [acc EXCEPT !.ok = FALSE]
             ELSE [acc EXCEPT !.ok = FALSE]

SmartsToMol(smarts) ==
    ScanSmarts(smarts, 1, "start", 0,
               [ok |-> TRUE, atoms |-> <<>>, bonds |-> <<>>, rings |-> 0])

\* ---------------------------------------------------- token metrics (pure)
\* An unsigned int as <<high 16 bits, low 16 bits>>, so that values up to
\* 2^32 - 1 are representable.
U32(n) == <<n \div 65536, n % 65536>>

U32Less(a, b) == a[1] < b[1] \/ (a[1] = b[1] /\ a[2] < b[2])

IsSpace(b) == b \in {" ", "LF"}

RECURSIVE SkipSpace(_, _)
SkipSpace(s, i) ==
    IF i <= Len(s) /\ IsSpace(s[i]) THEN SkipSpace(s, i + 1) ELSE i

\* static_cast<unsigned int>(std::stoul(s)): leading white space is
\* skipped, one sign is accepted, the longest run of digits is converted
\* and what follows it is ignored; no digit raises std::invalid_argument
\* (ok = FALSE).  A '-' negates the value as an unsigned long, which the
\* cast truncates to 32 bits.  (Digit runs of the model stay below 10
\* digits, so std::out_of_range does not occur.)
Stoul(s) ==
    LET i == SkipSpace(s, 1)
        signed == i <= Len(s) /\ s[i] \in {"+", "-"}
        neg == signed /\ s[i] = "-"
        mag == ReadDigits(s, IF signed THEN i + 1 ELSE i, -1)[1]
    IN  IF mag < 0 THEN [ok |-> FALSE, val |-> U32(0)]
        ELSE IF neg /\ mag > 0
        THEN [ok |-> TRUE,
              val |-> <<65535 - ((mag - 1) \div 65536),
                        65535 - ((mag - 1) % 65536)>>]
        ELSE [ok |-> TRUE, val |-> U32(mag)]

token_radius(token) ==
    IF Len(token) < 3 \/ token[1] # "r" THEN U32(0)
    ELSE LET pos == FindColon(token)
         IN  IF pos = -1 \/ pos <= 1 THEN U32(0)
             ELSE LET parsed == Stoul(Substr(token, 1, pos - 1))
                  IN  IF parsed.ok THEN parsed.val ELSE U32(0)

token_smarts(token) ==
    LET pos == FindColon(token)
    IN  IF pos = -1 THEN token ELSE SubstrFrom(token, pos + 1)

TokenMetrics(radius, numAtoms, numBonds, hasRing, numHetero, hasUnsat, token) ==
    [radius |-> radius, numAtoms |-> numAtoms, numBonds |-> numBonds,
     hasRing |-> hasRing, numHetero |-> numHetero, hasUnsat |-> hasUnsat,
     token |-> token]

compute_metrics(token) ==
    LET query == SmartsToMol(token_smarts(token))
        hetero == Cardinality({i \in 1..Len(query.atoms) :
                                  query.atoms[i] # 6 /\ query.atoms[i] # 1})
        unsaturated == \E i \in 1..Len(query.bonds) :
                          query.bonds[i] \in {"=", "#", ":"}
    IN  IF ~ query.ok
        THEN TokenMetrics(token_radius(token), 0, 0, 0, 0, 0, token)
        ELSE TokenMetrics(token_radius(token), Len(query.atoms),
                          Len(query.bonds),
                          IF query.rings > 0 THEN 1 ELSE 0,
                          hetero,
                          IF unsaturated THEN 1 ELSE 0,
                          token)

\* The tuple complexity_key makes of the metrics token_metrics returned.
KeyOf(metrics) ==
    <<metrics.radius, metrics.numAtoms, metrics.numBonds, metrics.hasRing,
      metrics.numHetero, metrics.hasUnsat, metrics.token>>

\* std::tuple operator<: lexicographic, component by component.
KeyLess(k1, k2) ==
    IF k1[1] # k2[1] THEN U32Less(k1[1], k2[1])
    ELSE IF k1[2] # k2[2] THEN k1[2] < k2[2]
    ELSE IF k1[3] # k2[3] THEN k1[3] < k2[3]
    ELSE IF k1[4] # k2[4] THEN k1[4] < k2[4]
    ELSE IF k1[5] # k2[5] THEN k1[5] < k2[5]
    ELSE IF k1[6] # k2[6] THEN k1[6] < k2[6]
    ELSE StrLess(k1[7], k2[7])

\* ------------------------------------------------------------- rendering
RECURSIVE join_with(_, _)
join_with(items, separator) ==
    IF items = <<>> THEN <<>>
    ELSE IF Len(items) = 1 THEN items[1]
    ELSE items[1] \o separator \o join_with(Tail(items), separator)

join_lines(lines) == join_with(lines, <<"LF">>)

\* ------------------------------------------------ toolkit: fingerprint
\* The hash of one environment, folded to nBits: the bit the Morgan
\* fingerprint sets for it.
EnvBit(mol, center, layer, nBits) ==
    LET near == Reach(mol, center, layer)
        RECURSIVE Sum(_)
        Sum(S) == IF S = {} THEN 0
                  ELSE LET a == CHOOSE x \in S : TRUE
                       IN  getAtomWithIdx(mol, a).num * (a + 3) + Sum(S \ {a})
    IN  (977 * layer + 131 * getAtomWithIdx(mol, center).num
            + 31 * Cardinality(BondsWithin(mol, center, layer))
            + Sum(near)) % nBits

\* RDKit::MorganFingerprints::getFingerprintAsBitVect: the set of bits that
\* are on.
MorganOnBits(mol, radius, nBits) ==
    {EnvBit(mol, pr[1], pr[2], nBits) : pr \in MorganOccurrences(mol, radius, 0)}

\* what() of the exception the fragment writer throws for an environment
\* of the given layer.
FragmentError(layer) ==
    <<"b", "a", "d", " ", "f", "r", "a", "g", "m", "e", "n", "t", " ", "r">>
        \o DecStr(layer)

\* ------------------------------------------------------------------ state
Threads == 1..NThreads

VARIABLES
    tk,            \* how the toolkit behaves in this process (fixed)
    req,           \* req[th]: the arguments of thread th's call
    pc,            \* pc[th]: where thread th is
    facade,        \* facade[th]: locals of ecfp_reasoning_trace_from_smiles
    enumerator,    \* enumerator[th]: locals of ecfp_env_tokens_by_center
    metricsCall,   \* metricsCall[th]: locals of token_metrics
    cache,         \* token_metrics: static cache (token -> TokenMetrics)
    cache_mutex,   \* token_metrics: static cache_mutex (owner, 0 = free)
    result,        \* result[th]: what the call gave its caller
    op,            \* StringProcessOp: its attribute, tensors and loop index
    tok            \* compute_metrics: the token and what was parsed from it

vars == <<tk, req, pc, facade, enumerator, metricsCall, cache, cache_mutex,
          result, op, tok>>

\* The toolkit is deterministic; what it does where the code leaves it a
\* choice is fixed per process: how far beyond the radius the bit-info map
\* reports, the order of its occurrences, the layer (if any) at which
\* fragment serialisation throws, how the bit-vector call ends, and
\* whether kekulisation throws.
Toolkit(over, descending, failLayer, fp, kek) ==
    [over |-> over, descending |-> descending, failLayer |-> failLayer,
     fp |-> fp, kek |-> kek]

ToolkitProfiles ==
    {Toolkit(0, FALSE, -1, "ok", "ok"),
     Toolkit(MaxOver, TRUE, -1, "ok", "ok"),
     Toolkit(0, FALSE, 1, "ok", "ok"),
     Toolkit(0, TRUE, -1, "throw", "throw"),
     Toolkit(0, FALSE, -1, "null", "ok")}

Requests ==
    [smiles : SmilesLibrary, radius : 0..MaxRadius, isomeric : BOOLEAN,
     kekulize : BOOLEAN, include_per_center : BOOLEAN,
     fp_nbits : {kECFPReasoningFingerprintSize, SmallFpBits}]

EmptyMap == <<>>

\* std::vector<std::uint8_t>(n, 0). A byte vector is kept as its size and
\* the elements that are not zero, by index from 0.
ZeroFingerprint(n) == [size |-> n, bytes |-> [k \in {} |-> 0]]

FacadeInit ==
    [mol |-> NullMol, per_center |-> EmptyMap,
     fingerprint |-> ZeroFingerprint(0),
     by_radius |-> EmptyMap, lines |-> <<>>, layers |-> <<>>,
     tokens |-> <<>>, i |-> 0, j |-> 0, lhs |-> <<>>, ran |-> {}]

EnumeratorInit ==
    [mol |-> NullMol, pairs |-> <<>>, originalMapNums |-> <<>>,
     perCenter |-> EmptyMap, center |-> 0, layer |-> 0, bondIndices |-> {},
     atomList |-> <<>>, smarts |-> <<>>, include_radius_tag |-> FALSE,
     mark_root |-> FALSE]

MetricsCallInit ==
    [token |-> <<>>, computed |-> <<>>, value |-> <<>>, ret |-> "none"]

NoResult ==
    [status |-> "none", text |-> <<>>, fingerprint |-> ZeroFingerprint(0),
     what |-> <<>>]

TypeOK ==
    /\ tk \in ToolkitProfiles
    /\ \A th \in Threads : req[th] \in Requests
    /\ cache_mutex \in {0} \cup Threads
    /\ \A th \in Threads : result[th].status \in {"none", "returned", "raised"}

\* No tensor operator is running.
NoOp ==
    [fingerprint_size |-> kECFPReasoningFingerprintSize, input |-> <<>>,
     num_elements |-> 0, i |-> 0, smiles |-> "", trace |-> <<>>,
     fingerprint |-> ZeroFingerprint(0), output_flat |-> <<>>,
     fingerprint_flat |-> <<>>]

\* No token is being parsed on its own.
NoTok == [token |-> <<>>, radius |-> U32(0), smarts |-> <<>>]

InitCommon ==
    /\ tk \in ToolkitProfiles
    /\ facade = [th \in Threads |-> FacadeInit]
    /\ enumerator = [th \in Threads |-> EnumeratorInit]
    /\ metricsCall = [th \in Threads |-> MetricsCallInit]
    /\ cache = EmptyMap
    /\ cache_mutex = 0
    /\ result = [th \in Threads |-> NoResult]

\* One caller: thread 1 makes a call with any arguments.
Init ==
    /\ InitCommon
    /\ \E r \in Requests : req = [th \in Threads |-> r]
    /\ pc = [th \in Threads |-> IF th = 1 THEN "idle" ELSE "off"]
    /\ op = NoOp
    /\ tok = NoTok

\* --------------------------------------------------- the enumerator's code
\* RDKit::MolOps::Kekulize: aromatic bonds become alternating double and
\* single bonds; a molecule without aromatic bonds is left as it is.
Kekulize(mol) ==
    [mol EXCEPT !.bonds =
        [bi \in 1..Len(mol.bonds) |->
            IF mol.bonds[bi].order = ":"
            THEN [mol.bonds[bi] EXCEPT !.order = IF bi % 2 = 1 THEN "=" ELSE "-"]
            ELSE mol.bonds[bi]]]

\* Mutant of RadiusFilter: every occurrence is kept.
RadiusFilterOff(occurrence, radius) == TRUE

\* occurrence.second <= radius
RadiusFilter(occurrence, radius) == occurrence[2] <= radius

\* The std::set `pairs` built from the bit-info map.
CollectPairs(bitInfo, radius) ==
    {bitInfo[k] : k \in {n \in 1..Len(bitInfo) : RadiusFilter(bitInfo[n], radius)}}

\* atomSet: the center and both ends of every bond of the environment,
\* as the sorted vector atomList.
EnvAtomList(mol, center, bondIndices) ==
    AscendingSeq({center}
        \cup {getBondWithIdx(mol, bi).b : bi \in bondIndices}
        \cup {getBondWithIdx(mol, bi).e : bi \in bondIndices})

\* Mutant of MarkRoot: the center is marked without the zeroing loop.
MarkRootOnly(mol, originalMapNums, center) ==
    setAtomMapNum(mol, center, 1)

\* Every atom's map number set to 0 and the center's to 1.
MarkRoot(mol, originalMapNums, center) ==
    LET zeroed == [mol EXCEPT !.atoms =
                      [k \in 1..Len(mol.atoms) |->
                          IF k <= Len(originalMapNums)
                          THEN [mol.atoms[k] EXCEPT !.map = 0]
                          ELSE mol.atoms[k]]]
    IN  setAtomMapNum(zeroed, center, 1)

\* Mutant of RestoreMaps: the marking is cleared, the snapshot is not used.
RestoreMapsZero(mol, originalMapNums) ==
    [mol EXCEPT !.atoms =
        [k \in 1..Len(mol.atoms) |-> [mol.atoms[k] EXCEPT !.map = 0]]]

\* Every atom's map number set back to the snapshot.
RestoreMaps(mol, originalMapNums) ==
    [mol EXCEPT !.atoms =
        [k \in 1..Len(mol.atoms) |->
            IF k <= Len(originalMapNums)
            THEN [mol.atoms[k] EXCEPT !.map = originalMapNums[k]]
            ELSE mol.atoms[k]]]

\* oss << 'r' << layer << ':' << smarts, or the bare smarts.
MakeToken(layer, smarts, include_radius_tag) ==
    IF include_radius_tag THEN <<"r">> \o DecStr(layer) \o <<":">> \o smarts
    ELSE smarts

\* perCenter[center][layer] = token
StoreToken(perCenter, center, layer, token) ==
    LET inner == IF center \in DOMAIN perCenter THEN perCenter[center]
                 ELSE EmptyMap
        inner2 == [l \in (DOMAIN inner) \cup {layer} |->
                      IF l = layer THEN token ELSE inner[l]]
    IN  [c \in (DOMAIN perCenter) \cup {center} |->
            IF c = center THEN inner2 ELSE perCenter[c]]

\* ------------------------------------------------------ the facade's code
\* Mutant of Aggregate: by_radius[layer][token] = 1 instead of += 1.
AggregateAssign(per_center) ==
    LET layersOf == UNION {DOMAIN per_center[c] : c \in DOMAIN per_center}
        centersAt(l) == {c \in DOMAIN per_center : l \in DOMAIN per_center[c]}
        tokensAt(l) == {per_center[c][l] : c \in centersAt(l)}
    IN  [l \in layersOf |-> [t \in tokensAt(l) |-> 1]]

\* by_radius[layer][token] += 1 over every (center, layer) of per_center.
Aggregate(per_center) ==
    LET layersOf == UNION {DOMAIN per_center[c] : c \in DOMAIN per_center}
        centersAt(l) == {c \in DOMAIN per_center : l \in DOMAIN per_center[c]}
        tokensAt(l) == {per_center[c][l] : c \in centersAt(l)}
    IN  [l \in layersOf |->
            [t \in tokensAt(l) |->
                Cardinality({c \in centersAt(l) : per_center[c][l] = t})]]

\* Mutant of RadiusOrder: the layers are visited in descending order.
RadiusOrderDescending(by_radius) == Reverse(AscendingSeq(DOMAIN by_radius))

\* The keys of by_radius in the order the range-for visits them.
RadiusOrder(by_radius) == AscendingSeq(DOMAIN by_radius)

\* The keys of per_center in the order the range-for visits them.
CenterOrder(per_center) == AscendingSeq(DOMAIN per_center)

\* Ascending strings: the iteration order of std::map<std::string, T>.
RECURSIVE AscendingStrings(_)
AscendingStrings(S) ==
    IF S = {} THEN <<>>
    ELSE LET m == CHOOSE x \in S : \A y \in S \ {x} : StrLess(x, y)
         IN  <<m>> \o AscendingStrings(S \ {m})

\* The vector `tokens` of (token, count) pairs copied from a by_radius
\* entry.
TokenVector(entry) ==
    LET order == AscendingStrings(DOMAIN entry)
    IN  [k \in 1..Len(order) |-> <<order[k], entry[order[k]]>>]

\* Mutant of SortLess: the tokens are compared as strings only.
SortLessByToken(lhsKey, rhsKey) == StrLess(lhsKey[7], rhsKey[7])

\* The comparator of the sort: complexity_key(lhs) < complexity_key(rhs).
SortLess(lhsKey, rhsKey) == KeyLess(lhsKey, rhsKey)

\* token << kCountSeparator << count
Piece(token_count) ==
    token_count[1] \o kCountSeparator \o DecStr(token_count[2])

\* 'r' << layer << ": " << join_with(pieces, ", ")
RadiusLine(layer, tokens) ==
    <<"r">> \o DecStr(layer) \o <<":", " ">>
        \o join_with([k \in 1..Len(tokens) |-> Piece(tokens[k])], <<",", " ">>)

kPerCenterHeader ==
    <<"#", " ", "p", "e", "r", "-", "c", "e", "n", "t", "e", "r", " ",
      "c", "h", "a", "i", "n", "s">>

\* symbol << atom_idx << ": " << join_with(tokens, kChainArrow), the chain
\* in ascending layer order.
CenterLine(mol, atom_idx, chainMap) ==
    LET order == AscendingSeq(DOMAIN chainMap)
        tokens == [k \in 1..Len(order) |-> chainMap[order[k]]]
    IN  getAtomWithIdx(mol, atom_idx).sym \o DecStr(atom_idx) \o <<":", " ">>
            \o join_with(tokens, kChainArrow)

\* Mutant of PerCenterLines: the section is written whenever it is asked
\* for, centers or not.
PerCenterLinesUnguarded(mol, per_center, include_per_center) ==
    IF include_per_center
    THEN LET order == CenterOrder(per_center)
         IN  <<<<>>, kPerCenterHeader>>
                \o [k \in 1..Len(order) |->
                       CenterLine(mol, order[k], per_center[order[k]])]
    ELSE <<>>

\* Mutant of PerCenterLines: the section is written whenever there are
\* centers, asked for or not.
PerCenterLinesAlways(mol, per_center, include_per_center) ==
    IF DOMAIN per_center # {}
    THEN LET order == CenterOrder(per_center)
         IN  <<<<>>, kPerCenterHeader>>
                \o [k \in 1..Len(order) |->
                       CenterLine(mol, order[k], per_center[order[k]])]
    ELSE <<>>

\* The lines the per-center stage appends.
PerCenterLines(mol, per_center, include_per_center) ==
    IF include_per_center /\ DOMAIN per_center # {}
    THEN LET order == CenterOrder(per_center)
         IN  <<<<>>, kPerCenterHeader>>
                \o [k \in 1..Len(order) |->
                       CenterLine(mol, order[k], per_center[order[k]])]
    ELSE <<>>

\* compute_morgan_fingerprint_bits: kECFPReasoningFingerprintSize bytes,
\* the toolkit's bits, or all zero when the toolkit returns null or throws.
compute_morgan_fingerprint_bits(mol, radius, includeChirality, outcome) ==
    IF outcome = "ok"
    THEN LET on == MorganOnBits(mol, radius, kECFPReasoningFingerprintSize)
         IN  [size |-> kECFPReasoningFingerprintSize,
              bytes |-> [k \in on |-> 1]]
    ELSE ZeroFingerprint(kECFPReasoningFingerprintSize)

\* Mutant of Emplace: a cache that is emptied before a new key goes in.
EmplaceEvicting(c, token, computed) ==
    IF token \in DOMAIN c THEN c ELSE [t \in {token} |-> computed]

\* Mutant of Emplace: a default-constructed TokenMetrics is inserted.
EmplaceDefault(c, token, computed) ==
    IF token \in DOMAIN c THEN c
    ELSE [t \in (DOMAIN c) \cup {token} |->
             IF t = token THEN TokenMetrics(U32(0), 0, 0, 0, 0, 0, <<>>) ELSE c[t]]

\* cache.emplace(token, computed): inserts only when the key is absent.
Emplace(c, token, computed) ==
    IF token \in DOMAIN c THEN c
    ELSE [t \in (DOMAIN c) \cup {token} |->
             IF t = token THEN computed ELSE c[t]]

\* Mutant of IsNull: the null check is missing.
IsNullUnchecked(mol) == FALSE

\* if (!mol)
IsNull(mol) == ~ mol.ok

\* Mutant of HitValue: a hit returns an entry without its structural
\* counts.
HitValueStale(c, token) ==
    TokenMetrics(c[token].radius, 0, 0, 0, 0, 0, c[token].token)

\* return it->second on a hit of cache.find
HitValue(c, token) == c[token]

\* ---------------------------------------------------------------- actions
Goto(th, where) == pc' = [pc EXCEPT ![th] = where]

\* ecfp_reasoning_trace_from_smiles is entered: the zeroed fingerprint.
FacadeEnter(th) ==
    /\ pc[th] = "idle"
    /\ facade' = [facade EXCEPT ![th].fingerprint =
                     ZeroFingerprint(kECFPReasoningFingerprintSize)]
    /\ Goto(th, "parse")
    /\ UNCHANGED <<tk, req, op, tok, enumerator, metricsCall, cache, cache_mutex, result>>

\* smiles_to_mol and the null check: a null molecule returns at once.
FacadeParse(th) ==
    /\ pc[th] = "parse"
    /\ LET mol == SmilesToMol(req[th].smiles)
       IN  \/ /\ IsNull(mol)
              /\ result' = [result EXCEPT ![th] =
                               [status |-> "returned", text |-> <<>>,
                                fingerprint |-> facade[th].fingerprint,
                                what |-> <<>>]]
              /\ Goto(th, "done")
              /\ UNCHANGED facade
           \/ /\ ~ IsNull(mol)
              /\ facade' = [facade EXCEPT
                               ![th].mol = mol,
                               ![th].ran = @ \cup {"ecfp_env_tokens_by_center"}]
              /\ Goto(th, "enum_copy")
              /\ UNCHANGED result
    /\ UNCHANGED <<tk, req, op, tok, enumerator, metricsCall, cache, cache_mutex>>

\* ecfp_env_tokens_by_center(*mol, radius, isomeric, kekulize, true, true):
\* the working copy, kekulised on request; both exceptions of the
\* kekulisation are swallowed.
EnumCopy(th) ==
    /\ pc[th] = "enum_copy"
    /\ \/ /\ ~ req[th].kekulize
          /\ enumerator' = [enumerator EXCEPT ![th] =
                [EnumeratorInit EXCEPT !.mol = facade[th].mol,
                                       !.include_radius_tag = TRUE,
                                       !.mark_root = TRUE]]
       \/ /\ req[th].kekulize
          /\ tk.kek = "ok"
          /\ enumerator' = [enumerator EXCEPT ![th] =
                [EnumeratorInit EXCEPT !.mol = Kekulize(facade[th].mol),
                                       !.include_radius_tag = TRUE,
                                       !.mark_root = TRUE]]
       \/ /\ req[th].kekulize
          /\ tk.kek = "throw"
          /\ enumerator' = [enumerator EXCEPT ![th] =
                [EnumeratorInit EXCEPT !.mol = facade[th].mol,
                                       !.include_radius_tag = TRUE,
                                       !.mark_root = TRUE]]
    /\ Goto(th, "enum_pairs")
    /\ UNCHANGED <<tk, req, op, tok, facade, metricsCall, cache, cache_mutex, result>>

\* collect_morgan_bitinfo, the filtered set of pairs and the snapshot of
\* the atom-map numbers.
EnumPairs(th) ==
    /\ pc[th] = "enum_pairs"
    /\ LET e == enumerator[th]
           bitInfo == BitInfoOccurrences(e.mol, req[th].radius, tk.over,
                                         tk.descending)
       IN  enumerator' = [enumerator EXCEPT
               ![th].pairs = AscendingPairs(CollectPairs(bitInfo, req[th].radius)),
               ![th].originalMapNums = MapNums(e.mol),
               ![th].perCenter = EmptyMap]
    /\ Goto(th, "enum_loop")
    /\ UNCHANGED <<tk, req, op, tok, facade, metricsCall, cache, cache_mutex, result>>

\* The head of the loop over pairs: the environment's bonds and atoms and
\* the root marking; or, with no pair left, the return of perCenter.
EnumNext(th) ==
    /\ pc[th] = "enum_loop"
    /\ LET e == enumerator[th]
       IN  \/ /\ e.pairs = <<>>
              /\ facade' = [facade EXCEPT ![th].per_center = e.perCenter]
              /\ Goto(th, "fingerprint")
              /\ UNCHANGED enumerator
           \/ /\ e.pairs # <<>>
              /\ LET center == Head(e.pairs)[1]
                     layer == Head(e.pairs)[2]
                     bondIndices == findAtomEnvironmentOfRadiusN(e.mol, layer, center)
                 IN  enumerator' = [enumerator EXCEPT
                        ![th].pairs = Tail(e.pairs),
                        ![th].center = center,
                        ![th].layer = layer,
                        ![th].bondIndices = bondIndices,
                        ![th].atomList = EnvAtomList(e.mol, center, bondIndices),
                        ![th].mol = IF e.mark_root
                                    THEN MarkRoot(e.mol, e.originalMapNums, center)
                                    ELSE e.mol]
              /\ Goto(th, "enum_smarts")
              /\ UNCHANGED facade
    /\ UNCHANGED <<tk, req, op, tok, metricsCall, cache, cache_mutex, result>>

\* RDKit::MolFragmentToSmarts on the marked molecule.  When it throws,
\* nothing in the enumerator or the facade catches: the exception leaves
\* both, and the locals are as the throw found them.
EnumSmarts(th) ==
    /\ pc[th] = "enum_smarts"
    /\ LET e == enumerator[th]
       IN  \/ /\ tk.failLayer # e.layer
              /\ enumerator' = [enumerator EXCEPT ![th].smarts =
                    MolFragmentToSmarts(e.mol, e.atomList, e.bondIndices,
                                        req[th].isomeric)]
              /\ Goto(th, "enum_restore")
              /\ UNCHANGED result
           \/ /\ tk.failLayer = e.layer
              /\ result' = [result EXCEPT ![th] =
                               [status |-> "raised", text |-> <<>>,
                                fingerprint |-> ZeroFingerprint(0),
                                what |-> FragmentError(e.layer)]]
              /\ Goto(th, "raised")
              /\ UNCHANGED enumerator
    /\ UNCHANGED <<tk, req, op, tok, facade, metricsCall, cache, cache_mutex>>

\* The restoration of the map numbers, the token and its place in
\* perCenter.
EnumRestore(th) ==
    /\ pc[th] = "enum_restore"
    /\ LET e == enumerator[th]
       IN  enumerator' = [enumerator EXCEPT
               ![th].mol = IF e.mark_root
                           THEN RestoreMaps(e.mol, e.originalMapNums)
                           ELSE e.mol,
               ![th].perCenter =
                   StoreToken(e.perCenter, e.center, e.layer,
                              MakeToken(e.layer, e.smarts, e.include_radius_tag))]
    /\ Goto(th, "enum_loop")
    /\ UNCHANGED <<tk, req, op, tok, facade, metricsCall, cache, cache_mutex, result>>

\* fingerprint = compute_morgan_fingerprint_bits(*mol, radius, isomeric)
FacadeFingerprint(th) ==
    /\ pc[th] = "fingerprint"
    /\ facade' = [facade EXCEPT
          ![th].fingerprint =
              compute_morgan_fingerprint_bits(facade[th].mol, req[th].radius,
                                              req[th].isomeric, tk.fp),
          ![th].ran = @ \cup {"compute_morgan_fingerprint_bits"}]
    /\ Goto(th, "aggregate")
    /\ UNCHANGED <<tk, req, op, tok, enumerator, metricsCall, cache, cache_mutex, result>>

\* The by_radius map and the empty vector of lines.
FacadeAggregate(th) ==
    /\ pc[th] = "aggregate"
    /\ LET by_radius == Aggregate(facade[th].per_center)
       IN  facade' = [facade EXCEPT ![th].by_radius = by_radius,
                                    ![th].lines = <<>>,
                                    ![th].layers = RadiusOrder(by_radius)]
    /\ Goto(th, "radius_loop")
    /\ UNCHANGED <<tk, req, op, tok, enumerator, metricsCall, cache, cache_mutex, result>>

\* The head of the loop over by_radius: the vector of (token, count) pairs
\* of the next layer, about to be sorted.
FacadeRadiusLoop(th) ==
    /\ pc[th] = "radius_loop"
    /\ \/ /\ facade[th].layers = <<>>
          /\ Goto(th, "per_center")
          /\ UNCHANGED facade
       \/ /\ facade[th].layers # <<>>
          /\ facade' = [facade EXCEPT
                ![th].tokens = TokenVector(facade[th].by_radius[Head(facade[th].layers)]),
                ![th].i = 2,
                ![th].j = 2]
          /\ Goto(th, "sort")
    /\ UNCHANGED <<tk, req, op, tok, enumerator, metricsCall, cache, cache_mutex, result>>

\* std::sort as an insertion sort: tokens[1..i-1] is sorted and tokens[j]
\* is moved down while the comparator puts it before tokens[j-1].  The
\* comparator calls complexity_key, hence token_metrics, on its left
\* operand and then on its right operand.
SortCompare(th) ==
    /\ pc[th] = "sort"
    /\ \/ /\ facade[th].i > Len(facade[th].tokens)
          /\ Goto(th, "emit_line")
          /\ UNCHANGED metricsCall
       \/ /\ facade[th].i <= Len(facade[th].tokens)
          /\ metricsCall' = [metricsCall EXCEPT ![th] =
                [MetricsCallInit EXCEPT
                    !.token = facade[th].tokens[facade[th].j][1],
                    !.ret = "cmp_rhs"]]
          /\ Goto(th, "tm_lock1")
    /\ UNCHANGED <<tk, req, op, tok, facade, enumerator, cache, cache_mutex, result>>

SortCompareRhs(th) ==
    /\ pc[th] = "cmp_rhs"
    /\ facade' = [facade EXCEPT ![th].lhs = KeyOf(metricsCall[th].value)]
    /\ metricsCall' = [metricsCall EXCEPT ![th] =
          [MetricsCallInit EXCEPT
              !.token = facade[th].tokens[facade[th].j - 1][1],
              !.ret = "cmp_done"]]
    /\ Goto(th, "tm_lock1")
    /\ UNCHANGED <<tk, req, op, tok, enumerator, cache, cache_mutex, result>>

SortMove(th) ==
    /\ pc[th] = "cmp_done"
    /\ LET f == facade[th]
           j == f.j
       IN  \/ /\ SortLess(f.lhs, KeyOf(metricsCall[th].value))
              /\ facade' = [facade EXCEPT
                    ![th].tokens = [f.tokens EXCEPT ![j] = f.tokens[j - 1],
                                                    ![j - 1] = f.tokens[j]],
                    ![th].i = IF j - 1 > 1 THEN f.i ELSE f.i + 1,
                    ![th].j = IF j - 1 > 1 THEN j - 1 ELSE f.i + 1]
           \/ /\ ~ SortLess(f.lhs, KeyOf(metricsCall[th].value))
              /\ facade' = [facade EXCEPT ![th].i = f.i + 1,
                                          ![th].j = f.i + 1]
    /\ Goto(th, "sort")
    /\ UNCHANGED <<tk, req, op, tok, enumerator, metricsCall, cache, cache_mutex, result>>

\* The line of the layer, from the sorted vector.
FacadeEmitLine(th) ==
    /\ pc[th] = "emit_line"
    /\ facade' = [facade EXCEPT
          ![th].lines = Append(@, RadiusLine(Head(facade[th].layers),
                                             facade[th].tokens)),
          ![th].layers = Tail(@)]
    /\ Goto(th, "radius_loop")
    /\ UNCHANGED <<tk, req, op, tok, enumerator, metricsCall, cache, cache_mutex, result>>

\* The per-center section and the return of (join_lines(lines),
\* fingerprint).
FacadeReturn(th) ==
    /\ pc[th] = "per_center"
    /\ LET f == facade[th]
           lines == f.lines \o PerCenterLines(f.mol, f.per_center,
                                              req[th].include_per_center)
       IN  /\ facade' = [facade EXCEPT ![th].lines = lines]
           /\ result' = [result EXCEPT ![th] =
                            [status |-> "returned", text |-> join_lines(lines),
                             fingerprint |-> f.fingerprint,
                             what |-> <<>>]]
    /\ Goto(th, "done")
    /\ UNCHANGED <<tk, req, op, tok, enumerator, metricsCall, cache, cache_mutex>>

\* ------------------------------------------------- token_metrics, by step
\* std::lock_guard's constructor: blocks until the mutex is free.
MutexFree(m) == m = 0

\* Mutant of GuardExit: the guard of the lookup lives on after a miss, as
\* it would without the inner block.
GuardExitHitOnly(th, hit) == IF hit THEN 0 ELSE th

\* ~lock_guard as control leaves the block of the lookup, by the return on
\* a hit or by its end on a miss: the owner of the mutex afterwards.
GuardExit(th, hit) == 0

\* The first lock_guard.
MetricsLock(th) ==
    /\ pc[th] = "tm_lock1"
    /\ MutexFree(cache_mutex)
    /\ cache_mutex' = th
    /\ Goto(th, "tm_find")
    /\ UNCHANGED <<tk, req, op, tok, facade, enumerator, metricsCall, cache, result>>

\* cache.find under the lock: a hit returns the entry, a miss leaves the
\* block; either way the guard releases the mutex.
MetricsFind(th) ==
    /\ pc[th] = "tm_find"
    /\ \/ /\ metricsCall[th].token \in DOMAIN cache
          /\ metricsCall' = [metricsCall EXCEPT
                ![th].value = HitValue(cache, metricsCall[th].token)]
          /\ cache_mutex' = GuardExit(th, TRUE)
          /\ Goto(th, metricsCall[th].ret)
       \/ /\ metricsCall[th].token \notin DOMAIN cache
          /\ cache_mutex' = GuardExit(th, FALSE)
          /\ Goto(th, "tm_compute")
          /\ UNCHANGED metricsCall
    /\ UNCHANGED <<tk, req, op, tok, facade, enumerator, cache, result>>

\* compute_metrics(token), with the mutex released.
MetricsCompute(th) ==
    /\ pc[th] = "tm_compute"
    /\ metricsCall' = [metricsCall EXCEPT
          ![th].computed = compute_metrics(metricsCall[th].token)]
    /\ Goto(th, "tm_lock2")
    /\ UNCHANGED <<tk, req, op, tok, facade, enumerator, cache, cache_mutex, result>>

\* The second lock_guard.
MetricsRelock(th) ==
    /\ pc[th] = "tm_lock2"
    /\ MutexFree(cache_mutex)
    /\ cache_mutex' = th
    /\ Goto(th, "tm_emplace")
    /\ UNCHANGED <<tk, req, op, tok, facade, enumerator, metricsCall, cache, result>>

\* cache.emplace under the lock and the return of it->second.
MetricsEmplace(th) ==
    /\ pc[th] = "tm_emplace"
    /\ cache' = Emplace(cache, metricsCall[th].token, metricsCall[th].computed)
    /\ metricsCall' = [metricsCall EXCEPT
          ![th].value = cache'[metricsCall[th].token]]
    /\ cache_mutex' = 0
    /\ Goto(th, metricsCall[th].ret)
    /\ UNCHANGED <<tk, req, op, tok, facade, enumerator, result>>

Next ==
    \E th \in Threads :
        \/ FacadeEnter(th)
        \/ FacadeParse(th)
        \/ EnumCopy(th)
        \/ EnumPairs(th)
        \/ EnumNext(th)
        \/ EnumSmarts(th)
        \/ EnumRestore(th)
        \/ FacadeFingerprint(th)
        \/ FacadeAggregate(th)
        \/ FacadeRadiusLoop(th)
        \/ SortCompare(th)
        \/ SortCompareRhs(th)
        \/ SortMove(th)
        \/ FacadeEmitLine(th)
        \/ FacadeReturn(th)
        \/ MetricsLock(th)
        \/ MetricsFind(th)
        \/ MetricsCompute(th)
        \/ MetricsRelock(th)
        \/ MetricsEmplace(th)

Spec == Init /\ [][Next]_vars

\* Concurrent callers: every thread makes a call, on small molecules.
ConcRequests ==
    {r \in Requests :
        /\ r.smiles \in {"CB", "[CH3:7]O"}
        /\ r.include_per_center
        /\ r.radius = 1
        /\ r.isomeric /\ ~ r.kekulize
        /\ r.fp_nbits = kECFPReasoningFingerprintSize}

\* Every thread calls at once. All threads but the last ask for the same
\* molecule, the last for any of ConcRequests, so that calls with equal and
\* with different arguments both meet in the cache; the fingerprint producer
\* succeeds.
InitConc ==
    /\ InitCommon
    /\ req \in [Threads -> ConcRequests]
    /\ \A t \in Threads : t < NThreads => req[t].smiles = "CB"
    /\ tk.fp = "ok"
    /\ pc = [th \in Threads |-> "idle"]
    /\ op = NoOp
    /\ tok = NoTok

SpecConc == InitConc /\ [][Next]_vars

\* Concurrent callers that all ask for the same molecule, so that every
\* thread contends for the same cache entries, under a scheduler that runs
\* every thread that is at a lock_guard or inside a critical section: a
\* thread that can acquire the mutex does, and a critical section ends.
\* Nothing is assumed of the steps outside token_metrics' two blocks,
\* compute_metrics included.
InitLock ==
    /\ InitConc
    /\ tk = Toolkit(0, FALSE, -1, "ok", "ok")
    /\ \A th \in Threads : req[th].smiles = "CB"

SpecConcFair ==
    /\ InitLock
    /\ [][Next]_vars
    /\ \A th \in Threads :
          /\ WF_vars(MetricsLock(th))
          /\ WF_vars(MetricsFind(th))
          /\ WF_vars(MetricsRelock(th))
          /\ WF_vars(MetricsEmplace(th))

\* ------------------------------------------------- StringProcessOp::Compute
\* The tensors the operator is run on: flat views of at most MaxElements
\* strings.
OpSmiles == {"", "not_a_molecule", "C", "CB"}

OpInputs ==
    UNION {[1..n -> OpSmiles] : n \in 0..MaxElements}

kErrorPrefix == <<"[", "e", "r", "r", "o", "r", "]", " ">>

kInvalid == <<"[", "i", "n", "v", "a", "l", "i", "d", "]">>

\* The arguments of the call of the facade: (smiles, 2U, true, false, true,
\* fingerprint_size_).
OpRequest(smiles, fingerprint_size) ==
    [smiles |-> smiles, radius |-> kOpRadius, isomeric |-> TRUE,
     kekulize |-> FALSE, include_per_center |-> TRUE,
     fp_nbits |-> fingerprint_size]

\* fingerprint.resize(expected_size, 0)
Resize(fingerprint, expected_size) ==
    [size |-> expected_size,
     bytes |-> [k \in {j \in DOMAIN fingerprint.bytes : j < expected_size} |->
                   fingerprint.bytes[k]]]

\* Mutant of OutputString: every empty trace is reported as invalid.
OutputStringInvalid(trace, smiles) ==
    IF trace = <<>> THEN kInvalid ELSE trace

\* What goes to output_flat(i): the trace, or for an empty trace "" when
\* the input is empty and "[invalid]" when it is not.
OutputString(trace, smiles) ==
    IF trace = <<>>
    THEN IF smiles = "" THEN <<>> ELSE kInvalid
    ELSE trace

\* A row of the fingerprint tensor that has not been written yet.
Unwritten == ZeroFingerprint(0)

\* Compute is entered: the outputs are allocated, the loop starts at 0.
OpCompute(th) ==
    /\ pc[th] = "op_compute"
    /\ op' = [op EXCEPT
          !.num_elements = Len(op.input),
          !.i = 0,
          !.output_flat = [k \in 1..Len(op.input) |-> <<>>],
          !.fingerprint_flat = [k \in 1..Len(op.input) |-> Unwritten]]
    /\ Goto(th, "op_loop")
    /\ UNCHANGED <<tk, req, tok, facade, enumerator, metricsCall, cache,
                   cache_mutex, result>>

\* The head of the loop and the call of the facade for element i.
OpLoop(th) ==
    /\ pc[th] = "op_loop"
    /\ \/ /\ op.i < op.num_elements
          /\ LET smiles == op.input[op.i + 1]
             IN  /\ op' = [op EXCEPT !.smiles = smiles, !.trace = <<>>,
                                     !.fingerprint = ZeroFingerprint(0)]
                 /\ req' = [req EXCEPT
                               ![th] = OpRequest(smiles, op.fingerprint_size)]
          /\ facade' = [facade EXCEPT ![th] = FacadeInit]
          /\ enumerator' = [enumerator EXCEPT ![th] = EnumeratorInit]
          /\ metricsCall' = [metricsCall EXCEPT ![th] = MetricsCallInit]
          /\ result' = [result EXCEPT ![th] = NoResult]
          /\ Goto(th, "idle")
       \/ /\ op.i >= op.num_elements
          /\ Goto(th, "op_done")
          /\ UNCHANGED <<req, op, facade, enumerator, metricsCall, result>>
    /\ UNCHANGED <<tk, tok, cache, cache_mutex>>

\* The facade returned: trace_result is what it returned.
OpReturned(th) ==
    /\ pc[th] = "done"
    /\ op.i < op.num_elements
    /\ op' = [op EXCEPT !.trace = result[th].text,
                        !.fingerprint = result[th].fingerprint]
    /\ Goto(th, "op_store")
    /\ UNCHANGED <<tk, req, tok, facade, enumerator, metricsCall, cache,
                   cache_mutex, result>>

\* catch (const std::exception& e): "[error] " + e.what() and a zeroed
\* vector of fingerprint_size_ bytes.
OpCatch(th) ==
    /\ pc[th] = "raised"
    /\ op.i < op.num_elements
    /\ op' = [op EXCEPT !.trace = kErrorPrefix \o result[th].what,
                        !.fingerprint = ZeroFingerprint(op.fingerprint_size)]
    /\ Goto(th, "op_store")
    /\ UNCHANGED <<tk, req, tok, facade, enumerator, metricsCall, cache,
                   cache_mutex, result>>

\* The resize, the choice of the output string and the copy of the row.
OpStore(th) ==
    /\ pc[th] = "op_store"
    /\ LET expected_size == op.fingerprint_size
           fingerprint == IF op.fingerprint.size # expected_size
                          THEN Resize(op.fingerprint, expected_size)
                          ELSE op.fingerprint
       IN  op' = [op EXCEPT
              !.output_flat[op.i + 1] = OutputString(op.trace, op.smiles),
              !.fingerprint_flat[op.i + 1] = fingerprint,
              !.i = op.i + 1]
    /\ Goto(th, "op_loop")
    /\ UNCHANGED <<tk, req, tok, facade, enumerator, metricsCall, cache,
                   cache_mutex, result>>

NextOp ==
    \/ Next
    \/ \E th \in Threads :
          \/ OpCompute(th)
          \/ OpLoop(th)
          \/ OpReturned(th)
          \/ OpCatch(th)
          \/ OpStore(th)

\* The operator is constructed with a positive fingerprint_size and run by
\* thread 1 on any of the input tensors.
InitOp ==
    /\ InitCommon
    /\ req = [th \in Threads |-> OpRequest("", kECFPReasoningFingerprintSize)]
    /\ pc = [th \in Threads |-> IF th = 1 THEN "op_compute" ELSE "off"]
    /\ \E n \in {kECFPReasoningFingerprintSize, SmallFpBits} :
       \E input \in OpInputs :
          op = [NoOp EXCEPT !.fingerprint_size = n, !.input = input]
    /\ tok = NoTok

SpecOp == InitOp /\ [][NextOp]_vars

\* ------------------------------------------------- reading a trace back
\* The first position >= i at which sep occurs in s, or 0.
RECURSIVE FindSeq(_, _, _)
FindSeq(s, sep, i) ==
    IF i + Len(sep) - 1 > Len(s) THEN 0
    ELSE IF SubSeq(s, i, i + Len(sep) - 1) = sep THEN i
    ELSE FindSeq(s, sep, i + 1)

RECURSIVE Split(_, _)
Split(s, sep) ==
    LET k == FindSeq(s, sep, 1)
    IN  IF k = 0 THEN <<s>>
        ELSE <<SubSeq(s, 1, k - 1)>> \o Split(SubSeq(s, k + Len(sep), Len(s)), sep)

TextLines(text) == IF text = <<>> THEN <<>> ELSE Split(text, <<"LF">>)

\* The position of the first empty line, or 0.
BlankAt(lines) ==
    IF \E k \in 1..Len(lines) : lines[k] = <<>>
    THEN CHOOSE k \in 1..Len(lines) :
            lines[k] = <<>> /\ \A m \in 1..(k - 1) : lines[m] # <<>>
    ELSE 0

\* The radius-summary lines of a trace: those before the empty line.
SummaryLines(text) ==
    LET lines == TextLines(text)
    IN  IF BlankAt(lines) = 0 THEN lines ELSE SubSeq(lines, 1, BlankAt(lines) - 1)

\* The per-center lines of a trace: those after the header.
ChainLines(text) ==
    LET lines == TextLines(text)
    IN  IF BlankAt(lines) = 0 THEN <<>>
        ELSE SubSeq(lines, BlankAt(lines) + 2, Len(lines))

\* The l of a line or token that starts r{l}:
TagLayer(s) == ReadDigits(s, 2, -1)[1]

AfterColonSpace(line) ==
    SubSeq(line, FindSeq(line, <<":", " ">>, 1) + 2, Len(line))

\* The token x count pieces of a summary line.
SummaryPieces(line) == Split(AfterColonSpace(line), <<",", " ">>)

PieceToken(piece) == SubSeq(piece, 1, FindSeq(piece, kCountSeparator, 1) - 1)

PieceCount(piece) ==
    ReadDigits(piece, FindSeq(piece, kCountSeparator, 1) + Len(kCountSeparator), -1)[1]

SummaryTokens(line) ==
    [k \in 1..Len(SummaryPieces(line)) |-> PieceToken(SummaryPieces(line)[k])]

\* The atom index of a per-center line: the digits before ": ".
ChainCenter(line) ==
    LET colon == FindSeq(line, <<":", " ">>, 1)
        first == CHOOSE k \in 1..colon :
                    /\ \A m \in k..(colon - 1) : IsDigit(line[m])
                    /\ (k = 1 \/ ~ IsDigit(line[k - 1]))
    IN  ReadDigits(line, first, -1)[1]

ChainTokens(line) == Split(AfterColonSpace(line), kChainArrow)

Returned(th) == result[th].status = "returned"

RECURSIVE SeqSum(_)
SeqSum(q) == IF q = <<>> THEN 0 ELSE Head(q) + SeqSum(Tail(q))

\* ------------------------------------------- compute_metrics on any token
\* The bytes token strings are made of: the tag letter, digits, the colon,
\* a letter, signs and white space.
TokenBytes == {"r", "1", "2", ":", "x", "-", "+", " "}

TokenStrings == UNION {[1..n -> TokenBytes] : n \in 0..MaxTokenLen}

\* metrics.radius = token_radius(token)
TokenRadius(th) ==
    /\ pc[th] = "tok_radius"
    /\ tok' = [tok EXCEPT !.radius = token_radius(tok.token)]
    /\ Goto(th, "tok_smarts")
    /\ UNCHANGED <<tk, req, op, facade, enumerator, metricsCall, cache,
                   cache_mutex, result>>

\* const std::string smarts = token_smarts(token)
TokenSmarts(th) ==
    /\ pc[th] = "tok_smarts"
    /\ tok' = [tok EXCEPT !.smarts = token_smarts(tok.token)]
    /\ Goto(th, "tok_done")
    /\ UNCHANGED <<tk, req, op, facade, enumerator, metricsCall, cache,
                   cache_mutex, result>>

NextTok ==
    \E th \in Threads : TokenRadius(th) \/ TokenSmarts(th)

\* compute_metrics is entered by thread 1 with any token string.
InitTok ==
    /\ InitCommon
    /\ tk = Toolkit(0, FALSE, -1, "ok", "ok")
    /\ req = [th \in Threads |-> OpRequest("", kECFPReasoningFingerprintSize)]
    /\ pc = [th \in Threads |-> IF th = 1 THEN "tok_radius" ELSE "off"]
    /\ op = NoOp
    /\ \E token \in TokenStrings : tok = [NoTok EXCEPT !.token = token]

SpecTok == InitTok /\ [][NextTok]_vars

\* ----------------------------------------------------------------- claims
\* C1: when the SMILES does not parse, the facade returns the empty text
\* and a fingerprint of zeros only, whatever the radius and the flags, and
\* neither the enumerator nor the fingerprint producer is run.
C1_ParseFailureIsSoft ==
    \A th \in Threads :
        ~ SmilesToMol(req[th].smiles).ok =>
            /\ pc[th] \in {"off", "idle", "parse", "done"}
            /\ facade[th].ran = {}
            /\ enumerator[th] = EnumeratorInit
            /\ pc[th] = "done" =>
                  /\ Returned(th)
                  /\ result[th].text = <<>>
                  /\ result[th].fingerprint.size > 0
                  /\ \A k \in DOMAIN result[th].fingerprint.bytes :
                        result[th].fingerprint.bytes[k] = 0

C1_Witness ==
    \E th \in Threads :
        /\ Returned(th)
        /\ req[th].smiles = "not_a_molecule"
        /\ req[th].radius = MaxRadius
        /\ req[th].kekulize /\ ~ req[th].isomeric /\ req[th].include_per_center

\* C2: the fingerprint the facade returns has exactly the requested length
\* fp_nbits, and every element of it is 0 or 1.
C2_FingerprintHasRequestedLength ==
    \A th \in Threads :
        Returned(th) =>
            /\ result[th].fingerprint.size = req[th].fp_nbits
            /\ \A k \in DOMAIN result[th].fingerprint.bytes :
                  /\ k \in 0..(result[th].fingerprint.size - 1)
                  /\ result[th].fingerprint.bytes[k] \in {0, 1}

\* C3: every (center, layer) the enumerator stores has layer <= radius,
\* whatever the bit-info map reports, so no summary line and no chain token
\* of the trace has a layer beyond the radius.
C3_LayersWithinRadius ==
    \A th \in Threads :
        /\ \A c \in DOMAIN enumerator[th].perCenter :
              \A l \in DOMAIN enumerator[th].perCenter[c] : l <= req[th].radius
        /\ Returned(th) =>
              /\ \A k \in 1..Len(SummaryLines(result[th].text)) :
                    TagLayer(SummaryLines(result[th].text)[k]) <= req[th].radius
              /\ \A k \in 1..Len(ChainLines(result[th].text)) :
                    LET toks == ChainTokens(ChainLines(result[th].text)[k])
                    IN  \A m \in 1..Len(toks) : TagLayer(toks[m]) <= req[th].radius

C3_Witness ==
    \E th \in Threads :
        /\ Returned(th)
        /\ ChainLines(result[th].text) # <<>>
        /\ LET bitInfo == BitInfoOccurrences(facade[th].mol, req[th].radius,
                                             tk.over, tk.descending)
           IN  \E k \in 1..Len(bitInfo) : bitInfo[k][2] > req[th].radius

\* C4: summary lines are in strictly ascending layer order, per-center
\* lines in strictly ascending atom-index order, and the tokens of each
\* chain in strictly ascending layer order, in whatever order the bit-info
\* map enumerates its occurrences.
C4_LinesAscending ==
    \A th \in Threads :
        Returned(th) =>
            LET sl == SummaryLines(result[th].text)
                cl == ChainLines(result[th].text)
            IN  /\ \A k \in 1..(Len(sl) - 1) : TagLayer(sl[k]) < TagLayer(sl[k + 1])
                /\ \A k \in 1..(Len(cl) - 1) : ChainCenter(cl[k]) < ChainCenter(cl[k + 1])
                /\ \A k \in 1..Len(cl) :
                      LET toks == ChainTokens(cl[k])
                      IN  \A m \in 1..(Len(toks) - 1) :
                             TagLayer(toks[m]) < TagLayer(toks[m + 1])

C4_Witness ==
    \E th \in Threads :
        /\ Returned(th)
        /\ tk.descending
        /\ Len(SummaryLines(result[th].text)) >= 3
        /\ Len(ChainLines(result[th].text)) >= 3
        /\ \E k \in 1..Len(ChainLines(result[th].text)) :
              Len(ChainTokens(ChainLines(result[th].text)[k])) >= 3

\* C5: within a summary line the tokens are in ascending order of the
\* complexity key (radius, num_atoms, num_bonds, has_ring, num_hetero,
\* has_unsat, token), which orders any two distinct tokens one way only.
C5_TokensByComplexity ==
    \A th \in Threads :
        Returned(th) =>
            \A n \in 1..Len(SummaryLines(result[th].text)) :
                LET toks == SummaryTokens(SummaryLines(result[th].text)[n])
                    key(k) == KeyOf(compute_metrics(toks[k]))
                IN  /\ \A k \in 1..(Len(toks) - 1) : KeyLess(key(k), key(k + 1))
                    /\ \A k, m \in 1..Len(toks) :
                          toks[k] # toks[m] =>
                              KeyLess(key(k), key(m)) # KeyLess(key(m), key(k))

C5_Witness ==
    \E th \in Threads :
        /\ Returned(th)
        /\ \E n \in 1..Len(SummaryLines(result[th].text)) :
              LET toks == SummaryTokens(SummaryLines(result[th].text)[n])
              IN  /\ Len(toks) >= 3
                  /\ \E k \in 1..(Len(toks) - 1) : StrLess(toks[k + 1], toks[k])

\* C6: the counts on the r{l}: line add up to the number of (center, l)
\* environments of the enumerator; each distinct token of the layer is on
\* the line exactly once, with a count >= 1.
C6_CountsConserved ==
    \A th \in Threads :
        Returned(th) =>
            LET per == enumerator[th].perCenter
                sl == SummaryLines(result[th].text)
                centersAt(l) == {c \in DOMAIN per : l \in DOMAIN per[c]}
                layersOf == UNION {DOMAIN per[c] : c \in DOMAIN per}
            IN  /\ {TagLayer(sl[n]) : n \in 1..Len(sl)} = layersOf
                /\ Len(sl) = Cardinality(layersOf)
                /\ \A n \in 1..Len(sl) :
                      LET l == TagLayer(sl[n])
                          pieces == SummaryPieces(sl[n])
                          toks == SummaryTokens(sl[n])
                      IN  /\ SeqSum([k \in 1..Len(pieces) |-> PieceCount(pieces[k])])
                                = Cardinality(centersAt(l))
                          /\ \A k \in 1..Len(pieces) : PieceCount(pieces[k]) >= 1
                          /\ {toks[k] : k \in 1..Len(toks)}
                                = {per[c][l] : c \in centersAt(l)}
                          /\ \A k, m \in 1..Len(toks) : toks[k] = toks[m] => k = m

C6_Witness ==
    \E th \in Threads :
        /\ Returned(th)
        /\ \E n \in 1..Len(SummaryLines(result[th].text)) :
              LET pieces == SummaryPieces(SummaryLines(result[th].text)[n])
              IN  /\ Len(pieces) >= 2
                  /\ \E k \in 1..Len(pieces) : PieceCount(pieces[k]) >= 2

\* C7: two invocations with equal SMILES, radius and flags end the same
\* way and return identical (text, fingerprint) pairs, one after the other
\* or concurrently, whatever the cache held when each started.
C7_Deterministic ==
    \A t1, t2 \in Threads :
        /\ result[t1].status # "none"
        /\ result[t2].status # "none"
        /\ req[t1] = req[t2]
        => result[t1] = result[t2]

\* Two finished calls with equal arguments whose summary lines needed the
\* sort to reorder tokens, one of which found its tokens in the cache.
C7_Witness ==
    \E t1, t2 \in Threads :
        /\ t1 # t2
        /\ Returned(t1) /\ Returned(t2)
        /\ req[t1] = req[t2]
        /\ metricsCall[t1].computed # <<>>
        /\ metricsCall[t2].computed = <<>> /\ metricsCall[t2].value # <<>>
        /\ \E n \in 1..Len(SummaryLines(result[t1].text)) :
              LET toks == SummaryTokens(SummaryLines(result[t1].text)[n])
              IN  \E k \in 1..(Len(toks) - 1) : StrLess(toks[k + 1], toks[k])

\* The threads that are inside a critical section of token_metrics.
InCritical(th) == pc[th] \in {"tm_find", "tm_emplace"}

\* C8: an entry of the cache, once present, is never removed and never
\* changes, under any interleaving; and the map is read (find) and written
\* (emplace) only by the thread that holds the mutex.
C8_CacheMonotonic ==
    /\ [][\A t \in DOMAIN cache : t \in DOMAIN cache' /\ cache'[t] = cache[t]]_vars
    /\ [][cache' # cache =>
             \E th \in Threads : pc[th] = "tm_emplace" /\ cache_mutex = th]_vars
    /\ [](\A th \in Threads : InCritical(th) => cache_mutex = th)

\* An emplace for a token that another thread inserted since this thread's
\* miss, with a second entry in the cache.
C8_Witness ==
    \E th \in Threads :
        /\ pc[th] = "tm_emplace"
        /\ cache_mutex = th
        /\ metricsCall[th].token \in DOMAIN cache
        /\ Cardinality(DOMAIN cache) >= 2

\* A call of token_metrics has returned to the comparator.
MetricsReturned(th) ==
    pc[th] \in {"cmp_rhs", "cmp_done"}

\* C9: every call token_metrics(t) returns compute_metrics(t): on a hit,
\* on a miss, and on a miss that races with another thread's miss.
C9_MetricsPure ==
    \A th \in Threads :
        MetricsReturned(th) =>
            metricsCall[th].value = compute_metrics(metricsCall[th].token)

\* Two threads have both missed on the same token and both returned.
C9_Witness ==
    \E t1, t2 \in Threads :
        /\ t1 # t2
        /\ MetricsReturned(t1) /\ MetricsReturned(t2)
        /\ metricsCall[t1].token = metricsCall[t2].token
        /\ metricsCall[t1].computed # <<>>
        /\ metricsCall[t2].computed # <<>>

\* C10: when fragment serialisation fails on the marked molecule, every
\* atom's map number is back at its snapshot value as the failure leaves
\* the enumerator.
C10_MapsRestoredOnFailure ==
    \A th \in Threads :
        pc[th] = "raised" =>
            MapNums(enumerator[th].mol) = enumerator[th].originalMapNums

\* The elements the operator has written so far.
OpWritten == 1..op.i

\* What the claim asks of element k, given how the facade ended for it.
OpElementAsClaimed(k, ended) ==
    LET smiles == op.input[k]
        out == op.output_flat[k]
        row == op.fingerprint_flat[k]
    IN  /\ ended.status = "raised" =>
              /\ out = kErrorPrefix \o ended.what
              /\ row.size = op.fingerprint_size
              /\ \A j \in DOMAIN row.bytes : row.bytes[j] = 0
        /\ (ended.status = "returned" /\ ended.text = <<>> /\ smiles # "") =>
              out = kInvalid
        /\ smiles = "" => out = <<>>
        /\ (ended.status = "returned" /\ ended.text # <<>> /\ smiles # "") =>
              out = ended.text

\* C11: for every element the operator writes "[error] " + message and a
\* zeroed row of fingerprint_size bytes when the facade raised, "[invalid]"
\* when the facade returned the empty trace for a non-empty input, "" for
\* an empty input and otherwise the facade's trace; writing one element
\* leaves the outputs of every other element as they were, and elements
\* with equal inputs get equal outputs whatever happened in between.
C11_PerElementOutputs ==
    /\ [](\A th \in Threads :
            (pc[th] = "op_loop" /\ op.i >= 1) =>
                OpElementAsClaimed(op.i, result[th]))
    /\ [](\A j, k \in OpWritten :
            op.input[j] = op.input[k] =>
                /\ op.output_flat[j] = op.output_flat[k]
                /\ op.fingerprint_flat[j] = op.fingerprint_flat[k])
    /\ [][\A k \in 1..op.num_elements :
             k # op.i + 1 =>
                 /\ op'.output_flat[k] = op.output_flat[k]
                 /\ op'.fingerprint_flat[k] = op.fingerprint_flat[k]]_vars

\* The operator has finished a tensor whose first element made the facade
\* raise and whose second element has a trace.
C11_Witness ==
    \E th \in Threads :
        /\ pc[th] = "op_done"
        /\ op.num_elements = 2
        /\ op.input = <<"CB", "C">>
        /\ SubSeq(op.output_flat[1], 1, Len(kErrorPrefix)) = kErrorPrefix
        /\ Len(op.output_flat[1]) > Len(kErrorPrefix)
        /\ op.fingerprint_flat[1] = ZeroFingerprint(op.fingerprint_size)
        /\ op.output_flat[2] # <<>>
        /\ Head(op.output_flat[2]) = "r"

\* A radius-summary line: r, a decimal layer, ": " and the pieces.
IsSummaryLine(line) ==
    LET colon == FindSeq(line, <<":", " ">>, 1)
    IN  /\ Len(line) >= 4
        /\ line[1] = "r"
        /\ colon >= 3
        /\ \A m \in 2..(colon - 1) : IsDigit(line[m])

\* The trace has the per-center header among its lines.
HasPerCenterSection(text) ==
    \E k \in 1..Len(TextLines(text)) : TextLines(text)[k] = kPerCenterHeader

\* C12: the returned text has the per-center section (an empty line, the
\* header line, one line per center) exactly when include_per_center is
\* set and the enumerator stored at least one center; without the section
\* every line is a radius-summary line; and the text is the emitted lines
\* with one line feed between neighbours and none at the end.
C12_PerCenterSection ==
    \A th \in Threads :
        Returned(th) =>
            LET text == result[th].text
                lines == TextLines(text)
                centers == DOMAIN facade[th].per_center
                n == Len(SummaryLines(text))
            IN  /\ HasPerCenterSection(text) <=>
                      (req[th].include_per_center /\ centers # {})
                /\ HasPerCenterSection(text) =>
                      /\ n >= 1
                      /\ \A k \in 1..n : IsSummaryLine(lines[k])
                      /\ lines[n + 1] = <<>>
                      /\ lines[n + 2] = kPerCenterHeader
                      /\ Len(lines) = n + 2 + Cardinality(centers)
                      /\ \A k \in (n + 3)..Len(lines) :
                            lines[k] # <<>> /\ ~ IsSummaryLine(lines[k])
                /\ ~ HasPerCenterSection(text) =>
                      \A k \in 1..Len(lines) : IsSummaryLine(lines[k])
                /\ lines = facade[th].lines
                /\ text # <<>> => text[Len(text)] # "LF"
                /\ Cardinality({k \in 1..Len(text) : text[k] = "LF"})
                      = (IF lines = <<>> THEN 0 ELSE Len(lines) - 1)

\* A returned trace with two summary lines and a per-center section of
\* three centers.
C12_Witness ==
    \E th \in Threads :
        /\ Returned(th)
        /\ req[th].include_per_center
        /\ HasPerCenterSection(result[th].text)
        /\ Len(SummaryLines(result[th].text)) = 2
        /\ Len(ChainLines(result[th].text)) = 3

\* The thread is at the call of RDKit::MolFragmentToSmarts.
AtSerialisation(th) == pc[th] = "enum_smarts"

\* C13: whenever the enumerator calls the fragment writer with mark_root
\* set, the atom at the center of the environment has map number 1 and
\* every other atom of the working molecule has map number 0, whatever the
\* map numbers of the input and however many pairs came before.
C13_OnlyRootMarked ==
    \A th \in Threads :
        (AtSerialisation(th) /\ enumerator[th].mark_root) =>
            LET e == enumerator[th]
                maps == MapNums(e.mol)
            IN  /\ e.center \in AtomIdx(e.mol)
                /\ maps[e.center + 1] = 1
                /\ \A k \in 1..Len(maps) : k # e.center + 1 => maps[k] = 0
                /\ Cardinality({k \in 1..Len(maps) : maps[k] = 1}) = 1

\* A serialisation for the second atom of a molecule whose first atom came
\* with a map number of its own, after other pairs were processed.
C13_Witness ==
    \E th \in Threads :
        /\ AtSerialisation(th)
        /\ enumerator[th].mark_root
        /\ enumerator[th].center = 1
        /\ enumerator[th].originalMapNums[1] = 7
        /\ DOMAIN enumerator[th].perCenter # {}

\* The enumerator of thread th is at the head of its loop or has returned
\* to the facade.
BetweenPairs(th) ==
    pc[th] \in {"enum_loop", "fingerprint", "aggregate", "radius_loop", "sort",
                "cmp_rhs", "cmp_done", "emit_line", "per_center", "done",
                "tm_lock1", "tm_find", "tm_compute", "tm_lock2", "tm_emplace"}

\* C14: between two pairs and after the enumerator has returned, the map
\* numbers of the working molecule are those of the snapshot, which are
\* those of the caller's molecule; a step from the head of the loop marks
\* the root and the next step puts the snapshot back; and the caller's
\* molecule is never changed by the enumerator.
C14_MapsRestoredBetweenPairs ==
    /\ [](\A th \in Threads :
            (BetweenPairs(th) /\ ~ IsNull(facade[th].mol)) =>
                /\ MapNums(enumerator[th].mol) = enumerator[th].originalMapNums
                /\ enumerator[th].originalMapNums = MapNums(facade[th].mol))
    /\ [](\A th \in Threads :
            pc[th] \in {"enum_copy", "enum_pairs", "enum_loop", "enum_smarts",
                        "enum_restore", "raised"} =>
                facade[th].mol = SmilesToMol(req[th].smiles))
    /\ [][\A th \in Threads :
             (pc[th] = "enum_restore" /\ pc'[th] = "enum_loop") =>
                 MapNums(enumerator'[th].mol) = enumerator[th].originalMapNums]_vars

\* The head of the loop after a pair was processed, with a pair to go, for
\* a molecule that came with a map number.
C14_Witness ==
    \E th \in Threads :
        /\ pc[th] = "enum_loop"
        /\ DOMAIN enumerator[th].perCenter # {}
        /\ enumerator[th].pairs # <<>>
        /\ 7 \in {enumerator[th].originalMapNums[k] :
                      k \in 1..Len(enumerator[th].originalMapNums)}

\* The 1-based position of the first ':' of a token, or 0.
FirstColon(token) ==
    IF \E k \in 1..Len(token) : token[k] = ":"
    THEN CHOOSE k \in 1..Len(token) :
            token[k] = ":" /\ \A m \in 1..(k - 1) : token[m] # ":"
    ELSE 0

\* What is written between the leading byte and the first ':'.
LayerText(token) == SubSeq(token, 2, FirstColon(token) - 1)

IsDecimal(s) == s # <<>> /\ \A k \in 1..Len(s) : IsDigit(s[k])

RECURSIVE DecimalValue(_)
DecimalValue(s) ==
    IF s = <<>> THEN 0
    ELSE DecimalValue(SubSeq(s, 1, Len(s) - 1)) * 10 + DigitVal(s[Len(s)])

\* The token has the form r{int}:...
HasLayerForm(token) ==
    /\ token # <<>>
    /\ token[1] = "r"
    /\ FirstColon(token) > 0
    /\ IsDecimal(LayerText(token))

\* C15: for every token string, token_radius returns the decimal number
\* written between the leading 'r' and the first ':' when the token has the
\* form r{int}:... and 0 in every other case, and token_smarts returns what
\* follows the first ':' or the whole token when it has no ':'.
C15_TokenParsing ==
    \A th \in Threads :
        pc[th] = "tok_done" =>
            /\ tok.radius = (IF HasLayerForm(tok.token)
                             THEN U32(DecimalValue(LayerText(tok.token)))
                             ELSE U32(0))
            /\ tok.smarts = (IF FirstColon(tok.token) = 0
                             THEN tok.token
                             ELSE SubSeq(tok.token, FirstColon(tok.token) + 1,
                                         Len(tok.token)))

\* The thread waits for the cache mutex.
AtLock(th) == pc[th] \in {"tm_lock1", "tm_lock2"}

\* C16: a call of token_metrics looks the token up while it holds the
\* mutex, computes on a miss without holding it, and inserts while holding
\* it again; a thread owns the mutex only inside the lookup and the insert,
\* so it is released on the hit return and on the miss return; and under a
\* scheduler that keeps running some runnable thread, an owner always gives
\* the mutex up and every thread waiting for it gets it.
C16_LockProtocol ==
    /\ [](\A th \in Threads : pc[th] = "tm_compute" => cache_mutex # th)
    /\ [](\A th \in Threads : cache_mutex = th => InCritical(th))
    /\ [][\A th \in Threads :
             /\ (pc'[th] = "tm_compute" /\ pc[th] # "tm_compute") =>
                    /\ pc[th] = "tm_find"
                    /\ cache_mutex = th
                    /\ metricsCall[th].token \notin DOMAIN cache
             /\ (pc'[th] = "tm_emplace" /\ pc[th] # "tm_emplace") =>
                    /\ pc[th] = "tm_lock2"
                    /\ cache_mutex = 0
                    /\ metricsCall[th].computed # <<>>
             /\ (pc'[th] = "tm_find" /\ pc[th] # "tm_find") =>
                    /\ pc[th] = "tm_lock1"
                    /\ cache_mutex = 0]_vars
    /\ \A th \in Threads : (cache_mutex = th) ~> (cache_mutex # th)
    /\ \A th \in Threads : AtLock(th) ~> InCritical(th)

\* One thread computes the metrics of a token while another thread owns
\* the mutex inside the insert.
C16_Witness ==
    \E t1, t2 \in Threads :
        /\ t1 # t2
        /\ pc[t1] = "tm_compute"
        /\ pc[t2] = "tm_emplace"
        /\ cache_mutex = t2

\* The enumerator ran for thread th's call and stored nothing.
NoEnvironment(th) ==
    /\ "ecfp_env_tokens_by_center" \in facade[th].ran
    /\ DOMAIN facade[th].per_center = {}

\* C17: a call whose SMILES parses and whose enumerator stores no
\* environment returns the empty text, with include_per_center set or not:
\* no summary line, no empty line, no header; and a returned text that is
\* not empty starts with a radius-summary line.
C17_NoEnvironmentNoText ==
    \A th \in Threads :
        Returned(th) =>
            /\ NoEnvironment(th) =>
                  /\ result[th].text = <<>>
                  /\ facade[th].lines = <<>>
            /\ result[th].text # <<>> =>
                  /\ Len(SummaryLines(result[th].text)) >= 1
                  /\ IsSummaryLine(TextLines(result[th].text)[1])

\* A returned call for the SMILES that parses to a molecule without atoms,
\* with the per-center section asked for.
C17_Witness ==
    \E th \in Threads :
        /\ Returned(th)
        /\ NoEnvironment(th)
        /\ SmilesToMol(req[th].smiles).ok
        /\ req[th].include_per_center
        /\ req[th].radius = MaxRadius

====
